---- MODULE Spec2Model ----
(***************************************************************************)
(* The command-menu module of apostrophe                                   *)
(* (modules/@apostrophecms/command-menu/index.js): the registry of         *)
(* commands, removals and groups that the apostrophe:ready handler         *)
(* composeCommands builds from the fragments the modules declare, and the  *)
(* per-request views getVisible / getBrowserData compute from it.          *)
(*                                                                         *)
(* JavaScript values are represented as follows.                           *)
(*  - An object with computed keys (the command table, the group table, a  *)
(*    fragment's add and group mappings, the fields mapping of a view) is  *)
(*    a sequence of entries [k |-> key, v |-> value] with distinct keys,   *)
(*    in the order Object.entries() lists them (insertion order).          *)
(*  - An object with fixed keys (a command, a group, a permission, a       *)
(*    fragment) is a record; an optional key that is not given is not in   *)
(*    the record's DOMAIN.                                                 *)
(*  - A string is a string.  NUM stands for a number where the source      *)
(*    expects a string; Undefined stands for the value undefined where an  *)
(*    object is expected.                                                  *)
(***************************************************************************)
EXTENDS Integers, Sequences, FiniteSets, TLC

VARIABLES
  aposModules,  \* self.apos.modules, where a specification fixes it
  rawCommands,  \* self.rawCommands
  removes,      \* self.removes
  commands,     \* self.commands
  groups,       \* self.groups
  modals,       \* self.modals: "{}" or "undefined"
  composed,     \* the accumulator the pipe of the last cycle reached
  outcome,      \* how the last cycle ended
  view          \* what the last reader call after the last cycle returned

vars == <<aposModules, rawCommands, removes, commands, groups, modals, composed, outcome, view>>

-----------------------------------------------------------------------------
(* Bounds of the model. *)

\* At most this many chain entries, over all the modules of one cycle.
MaxEntries == 2

-----------------------------------------------------------------------------
(* JavaScript values. *)

NUM == "#number"

Undefined == [undefined |-> TRUE]

\* typeof v, for a v that is a string or a number
TypeOf(v) == IF v = NUM THEN "number" ELSE "string"

\* the truthiness of a string or a number v (the number is not 0)
Truthy(v) == v # ""

EmptyObject == << >>

Keys(o) == [i \in 1..Len(o) |-> o[i].k]

Has(o, key) == \E i \in 1..Len(o) : o[i].k = key

\* o[key], for a key o has
Get(o, key) == o[CHOOSE i \in 1..Len(o) : o[i].k = key].v

\* { ...o, [key]: val }: a key o has keeps its place
Put(o, key, val) ==
  IF Has(o, key)
    THEN [i \in 1..Len(o) |-> IF o[i].k = key THEN [k |-> key, v |-> val] ELSE o[i]]
    ELSE Append(o, [k |-> key, v |-> val])

\* { ...o, ...p }
RECURSIVE Spread(_, _)
Spread(o, p) ==
  IF p = << >> THEN o
  ELSE Spread(Put(o, Head(p).k, Head(p).v), Tail(p))

\* array.includes(x)
Includes(array, x) == \E i \in 1..Len(array) : array[i] = x

-----------------------------------------------------------------------------
(* The commands, groups and fragments the modules of the model declare. *)

\* the command of lines 12-23: no permission, no modal
CmdPlain ==
  [type |-> "item", label |-> "show", shortcut |-> "?",
   action |-> [type |-> "open-modal", payload |-> "object"]]

\* a command with a permission that gives no mode, shown in the modal M
CmdPerm ==
  [type |-> "item", label |-> "edit", shortcut |-> "E",
   action |-> [type |-> "open-modal", payload |-> "object"],
   permission |-> [action |-> "edit", type |-> "doc"],
   modal |-> "M"]

\* a command with a permission that gives a mode, and an empty modal
CmdMode ==
  [type |-> "item", label |-> "publish", shortcut |-> "P",
   action |-> [type |-> "open-modal", payload |-> "object"],
   permission |-> [action |-> "edit", type |-> "doc", mode |-> "published"],
   modal |-> ""]

\* a command whose shortcut is a number
CmdBad ==
  [type |-> "item", label |-> "bad", shortcut |-> NUM,
   action |-> [type |-> "open-modal", payload |-> "object"]]

\* the shape of lines 9-34: one command and the group that lists it
FragMenu ==
  [add   |-> << [k |-> "a", v |-> CmdPlain] >>,
   group |-> << [k |-> "g", v |-> [label |-> "G", fields |-> <<"a">>]] >>]

\* redeclares a, declares undefined, extends and relabels g
FragOverride ==
  [add   |-> << [k |-> "undefined", v |-> CmdMode], [k |-> "a", v |-> CmdPerm] >>,
   group |-> << [k |-> "g", v |-> [label |-> "G2", fields |-> <<"undefined", "a">>]] >>]

\* removes a, declares b, and lists both in g
FragRemove ==
  [add    |-> << [k |-> "b", v |-> CmdPlain] >>,
   remove |-> <<"a">>,
   group  |-> << [k |-> "g", v |-> [label |-> "G3", fields |-> <<"a", "b">>]] >>]

\* declares a command with an invalid shortcut, in a group of its own
FragBad ==
  [add   |-> << [k |-> "b", v |-> CmdBad] >>,
   group |-> << [k |-> "h", v |-> [label |-> "H", fields |-> <<"b">>]] >>]

\* declares no group
FragNoGroup ==
  [add    |-> << [k |-> "b", v |-> CmdPerm] >>,
   remove |-> <<"b">>]

\* declares g with a label that is a number; no add, no remove
FragBadGroup ==
  [group |-> << [k |-> "g", v |-> [label |-> NUM, fields |-> <<"a">>]] >>]

Fragments == {FragOverride, FragRemove, FragBad, FragNoGroup, FragBadGroup}

(* aposModule.__meta.commands[entry.name] for one chain entry: nothing, a  *)
(* fragment, or a function of the module that returns a fragment or throws *)
NoMetadata == [kind |-> "none"]
Static(f) == [kind |-> "object", value |-> f]
Function(f) == [kind |-> "function", returns |-> f]
Thrower == [kind |-> "function", throws |-> TRUE]

Metadata ==
  {NoMetadata, Thrower, Function(FragMenu)} \cup {Static(f) : f \in Fragments}

\* self.apos.modules, as the list Object.values() gives: every module is its
\* chain (__meta.chain), each entry with its metadata (__meta.commands[name]);
\* the lists whose chains hold at most n entries together
RECURSIVE ModuleLists(_)
ModuleLists(n) ==
  {<< >>} \cup
  UNION {{<<c>> \o rest : c \in [1..m -> Metadata], rest \in ModuleLists(n - m)} :
         m \in 1..n}

Modules == ModuleLists(MaxEntries)

-----------------------------------------------------------------------------
(* A call that may throw returns Throws or Returns(value). *)

Throws == [threw |-> TRUE]
Returns(x) == [threw |-> FALSE, value |-> x]

-----------------------------------------------------------------------------
(* The collector. *)

\* the map callback of lines 163-169, on the metadata of one entry
ResolveMetadata(metadata) ==
  IF metadata.kind = "function"
    THEN IF "throws" \in DOMAIN metadata THEN Throws ELSE Returns(<<metadata.returns>>)
    ELSE IF metadata.kind = "none" THEN Returns(<< >>) ELSE Returns(<<metadata.value>>)

\* chain.map(...).filter(entry => entry !== null), from entry i on
RECURSIVE ResolveChain(_, _)
ResolveChain(chain, i) ==
  IF i > Len(chain) THEN Returns(<< >>)
  ELSE LET first == ResolveMetadata(chain[i])
       IN  IF first.threw THEN Throws
           ELSE LET rest == ResolveChain(chain, i + 1)
                IN  IF rest.threw THEN Throws
                    ELSE Returns(first.value \o rest.value)

composeCommandsForModule(aposModule) == ResolveChain(aposModule, 1)

\* Object.values(self.apos.modules).flatMap(self.composeCommandsForModule)
RECURSIVE FlatMapModules(_, _)
FlatMapModules(modules, i) ==
  IF i > Len(modules) THEN Returns(<< >>)
  ELSE LET first == composeCommandsForModule(modules[i])
       IN  IF first.threw THEN Throws
           ELSE LET rest == FlatMapModules(modules, i + 1)
                IN  IF rest.threw THEN Throws
                    ELSE Returns(first.value \o rest.value)

-----------------------------------------------------------------------------
(* The composition pipeline.  The accumulator is a record that gains the   *)
(* keys command, remove and group.                                         *)

\* [].concat(...rawCommands.map(c => c.add)).filter(x => x), from fragment i on:
\* a fragment without add gives undefined, which the filter drops
RECURSIVE ConcatAdd(_, _)
ConcatAdd(raw, i) ==
  IF i > Len(raw) THEN << >>
  ELSE (IF "add" \in DOMAIN raw[i] THEN <<raw[i].add>> ELSE << >>) \o ConcatAdd(raw, i + 1)

\* the reduce with the spread turned round, ({ ...command, ...acc }): the first
\* declaration of a name wins
RECURSIVE ReduceSpreadFirstWins(_, _, _)
ReduceSpreadFirstWins(list, i, acc) ==
  IF i > Len(list) THEN acc
  ELSE ReduceSpreadFirstWins(list, i + 1, Spread(list[i], acc))

\* concatenate.reduce((acc, command) => ({ ...acc, ...command }), acc)
RECURSIVE ReduceSpread(_, _, _)
ReduceSpread(list, i, acc) ==
  IF i > Len(list) THEN acc
  ELSE ReduceSpread(list, i + 1, Spread(acc, list[i]))

composeCommand(initialState) ==
  [k \in DOMAIN initialState \cup {"command"} |->
     IF k = "command"
       THEN ReduceSpread(ConcatAdd(initialState.rawCommands, 1), 1, EmptyObject)
       ELSE initialState[k]]

\* array.filter(x => x), for an array of names
RECURSIVE FilterTruthy(_)
FilterTruthy(array) ==
  IF array = << >> THEN << >>
  ELSE (IF Truthy(Head(array)) THEN <<Head(array)>> ELSE << >>) \o FilterTruthy(Tail(array))

\* [].concat(...rawCommands.map(c => c.remove)), from fragment i on: concat
\* flattens each remove array; a fragment without remove gives undefined,
\* which the filter drops
RECURSIVE ConcatRemove(_, _)
ConcatRemove(raw, i) ==
  IF i > Len(raw) THEN << >>
  ELSE (IF "remove" \in DOMAIN raw[i] THEN FilterTruthy(raw[i].remove) ELSE << >>)
         \o ConcatRemove(raw, i + 1)

composeRemove(initialState) ==
  [k \in DOMAIN initialState \cup {"remove"} |->
     IF k = "remove" THEN ConcatRemove(initialState.rawCommands, 1)
     ELSE initialState[k]]

\* the reducer of lines 112-120, over the entries of one group mapping
RECURSIVE ReduceGroupEntries(_, _, _)
ReduceGroupEntries(entries, i, acc) ==
  IF i > Len(entries) THEN acc
  ELSE LET name == entries[i].k
           attributes == entries[i].v
           before == IF Has(acc, name) THEN Get(acc, name).fields ELSE << >>
       IN  ReduceGroupEntries(entries, i + 1,
             Put(acc, name, [attributes EXCEPT !.fields = before \o attributes.fields]))

\* formatGroups: Object.entries(group) throws a TypeError when group is undefined
formatGroups(state, fragment) ==
  IF "group" \in DOMAIN fragment
    THEN Returns(ReduceGroupEntries(fragment.group, 1, state))
    ELSE Throws

\* rawCommands.reduce(formatGroups, acc), from fragment i on
RECURSIVE ReduceFormatGroups(_, _, _)
ReduceFormatGroups(raw, i, acc) ==
  IF i > Len(raw) THEN Returns(acc)
  ELSE LET next == formatGroups(acc, raw[i])
       IN  IF next.threw THEN Throws ELSE ReduceFormatGroups(raw, i + 1, next.value)

composeGroup(initialState) ==
  LET concatenate == ReduceFormatGroups(initialState.rawCommands, 1, EmptyObject)
  IN  IF concatenate.threw THEN Throws
      ELSE Returns([k \in DOMAIN initialState \cup {"group"} |->
                      IF k = "group" THEN concatenate.value ELSE initialState[k]])

\* pipe(self.composeCommand, self.composeRemove, self.composeGroup)
pipe(initial) == composeGroup(composeRemove(composeCommand(initial)))

\* the accumulator the pipe got to: the one composeGroup was given when it threw
Reached(initial) ==
  LET result == pipe(initial)
  IN  IF result.threw THEN composeRemove(composeCommand(initial)) ELSE result.value
-----------------------------------------------------------------------------
(* The validator.  A validate call returns "true" or ends in "throw".      *)

\* Lines 77-79 and 80-84 chain their asserts with &&, and assert.equal
\* returns undefined: only the first assert of each chain runs.  In the model
\* an action and a permission are always objects, so that assert passes.
validateCommand(name, command) ==
  IF /\ command.type = "item"
     /\ TypeOf(command.label) = "string"
     /\ ("modal" \in DOMAIN command /\ Truthy(command.modal)
           => TypeOf(command.modal) = "string")
     /\ TypeOf(command.shortcut) = "string"
    THEN "true"
    ELSE "throw"

validateGroup(name, group) ==
  IF /\ TypeOf(group.label) = "string"
     /\ \A i \in 1..Len(group.fields) : TypeOf(group.fields[i]) = "string"
    THEN "true"
    ELSE "throw"

\* Object.entries(composed.command).some(([name, command]) => validateCommand(...)),
\* from entry i on: some() stops at the first callback that returns true
RECURSIVE SomeValidateCommand(_, _)
SomeValidateCommand(entries, i) ==
  IF i > Len(entries) THEN "false"
  ELSE LET r == validateCommand(entries[i].k, entries[i].v)
       IN  IF r = "false" THEN SomeValidateCommand(entries, i + 1) ELSE r

\* Object.entries(composed.group).some(([name, group]) => validateGroup(...))
RECURSIVE SomeValidateGroup(_, _)
SomeValidateGroup(entries, i) ==
  IF i > Len(entries) THEN "false"
  ELSE LET r == validateGroup(entries[i].k, entries[i].v)
       IN  IF r = "false" THEN SomeValidateGroup(entries, i + 1) ELSE r

\* lines 57-58: whether the try block reaches line 60
ValidationPasses(c) ==
  /\ SomeValidateCommand(c.command, 1) # "throw"
  /\ SomeValidateGroup(c.group, 1) # "throw"

-----------------------------------------------------------------------------
(* The state after construction. *)

NoView == [kind |-> "none"]

\* the fields of the module, as init(self) leaves them (lines 36-40)
Constructed ==
  /\ rawCommands = << >>
  /\ removes = << >>
  /\ commands = EmptyObject
  /\ groups = EmptyObject
  /\ modals = "{}"
  /\ composed = [rawCommands |-> << >>]
  /\ outcome = "init"
  /\ view = NoView

\* Spec draws the module list anew at every cycle and does not keep it
Init ==
  /\ aposModules = << >>
  /\ Constructed

-----------------------------------------------------------------------------
(* The apostrophe:ready handler. *)

\* lines 50-53
Reset == [removes |-> << >>, commands |-> EmptyObject, groups |-> EmptyObject, modals |-> "{}"]

\* a publication that leaves out line 60
PublishWithoutRemoves(c) ==
  [removes |-> << >>, commands |-> c.command, groups |-> c.group, modals |-> "undefined"]

\* lines 60-63: composed.modal is undefined, no stage of the pipe sets it
Publish(c) ==
  [removes |-> c.remove, commands |-> c.command, groups |-> c.group, modals |-> "undefined"]

\* lines 50-67, once line 49 has assigned raw to self.rawCommands: the fields
\* as the handler leaves them, with how it ended and what the pipe reached
Cycle(raw) ==
  LET initial == [rawCommands |-> raw]
      result == pipe(initial)
  IN  IF result.threw
        THEN \* line 55 throws, after the reset, outside the try
             [outcome |-> "compose_error", rawCommands |-> raw,
              composed |-> Reached(initial), fields |-> Reset]
        ELSE IF ValidationPasses(result.value)
          THEN [outcome |-> "published", rawCommands |-> raw,
                composed |-> result.value, fields |-> Publish(result.value)]
          ELSE \* caught at line 64
               [outcome |-> "validation_error", rawCommands |-> raw,
                composed |-> result.value, fields |-> Reset]

\* lines 49-67 for one value of self.apos.modules: line 49 throws, and the
\* handler is left with nothing assigned, or the cycle runs
Handler(modules) ==
  LET collected == FlatMapModules(modules, 1)
  IN  IF collected.threw THEN [outcome |-> "contribution_error"]
      ELSE Cycle(collected.value)

\* what the handler does, over the module lists of the model
Handlers == {Handler(modules) : modules \in Modules}

composeCommands(handler) ==
  /\ UNCHANGED aposModules
  /\ view' = NoView
  /\ outcome' = handler.outcome
  /\ IF handler.outcome = "contribution_error"
       THEN UNCHANGED <<rawCommands, removes, commands, groups, modals, composed>>
       ELSE /\ rawCommands' = handler.rawCommands
            /\ composed' = handler.composed
            /\ removes' = handler.fields.removes
            /\ commands' = handler.fields.commands
            /\ groups' = handler.fields.groups
            /\ modals' = handler.fields.modals

-----------------------------------------------------------------------------
(* The readers. *)

\* self.apos.permissions.can(req, action, type, mode): the request carries
\* the triples the permission oracle grants it
can(req, action, type, mode) == <<action, type, mode>> \in req.grants

Grants == {<<"edit", "doc", "draft">>, <<"edit", "doc", "published">>}

Requests == [user : BOOLEAN, grants : SUBSET Grants]

isCommandVisible(req, command) ==
  IF "permission" \in DOMAIN command
    THEN can(req, command.permission.action, command.permission.type,
             IF "mode" \in DOMAIN command.permission /\ Truthy(command.permission.mode)
               THEN command.permission.mode ELSE "draft")
    ELSE TRUE

\* line 248 without its test of self.removes
KeptWhateverRemoves(req, key, command) == isCommandVisible(req, command)

\* the condition of line 248
Kept(req, key, command) == ~Includes(removes, key) /\ isCommandVisible(req, command)

\* lines 245-252, from entry i on: Object.fromEntries() reads the [] of a
\* command that is left out as the key "undefined" with the value undefined
RECURSIVE VisibleCommands(_, _, _)
VisibleCommands(req, i, acc) ==
  IF i > Len(commands) THEN acc
  ELSE LET key == commands[i].k
           command == commands[i].v
       IN  VisibleCommands(req, i + 1,
             IF Kept(req, key, command)
               THEN Put(acc, key, command)
               ELSE Put(acc, "undefined", Undefined))

\* the reduce of lines 183-189, from field i on
RECURSIVE ReduceFields(_, _, _, _)
ReduceFields(visible, fields, i, acc) ==
  IF i > Len(fields) THEN acc
  ELSE ReduceFields(visible, fields, i + 1,
         IF Includes(Keys(visible), fields[i])
           THEN Put(acc, fields[i], Get(visible, fields[i]))
           ELSE acc)

\* lines 180-196, from group i on
RECURSIVE VisibleGroupsFrom(_, _, _)
VisibleGroupsFrom(visible, i, acc) ==
  IF i > Len(groups) THEN acc
  ELSE LET key == groups[i].k
           group == groups[i].v
           fields == ReduceFields(visible, group.fields, 1, EmptyObject)
       IN  VisibleGroupsFrom(visible, i + 1,
             IF Len(fields) > 0
               THEN Put(acc, key, [group EXCEPT !.fields = fields])
               ELSE acc)

getVisibleGroups(visible) == VisibleGroupsFrom(visible, 1, EmptyObject)

\* line 224 without field.modal
ModalKeyNull(field) == "null"

\* field.modal || null, as the key it makes of acc
ModalKey(field) ==
  IF "modal" \in DOMAIN field /\ Truthy(field.modal) THEN field.modal ELSE "null"

\* the forEach callback of lines 223-235
PlaceField(acc, key, group, name, field) ==
  LET modal == ModalKey(field)
      ofModal == IF Has(acc, modal) THEN Get(acc, modal) ELSE EmptyObject
      shell == IF Has(ofModal, key) THEN Get(ofModal, key) ELSE group
      before == IF Has(ofModal, key) THEN Get(ofModal, key).fields ELSE EmptyObject
  IN  Put(acc, modal, Put(ofModal, key, [shell EXCEPT !.fields = Put(before, name, field)]))

\* the forEach of lines 222-235, from field i on: field.modal throws a
\* TypeError when the field is undefined
RECURSIVE PlaceFields(_, _, _, _)
PlaceFields(acc, key, group, i) ==
  IF i > Len(group.fields) THEN Returns(acc)
  ELSE LET name == group.fields[i].k
           field == group.fields[i].v
       IN  IF field = Undefined THEN Throws
           ELSE PlaceFields(PlaceField(acc, key, group, name, field), key, group, i + 1)

\* the reduce of lines 219-240, from group i of the visible groups on
RECURSIVE ReduceModals(_, _, _)
ReduceModals(visibleGroups, i, acc) ==
  IF i > Len(visibleGroups) THEN Returns(acc)
  ELSE LET next == PlaceFields(acc, visibleGroups[i].k, visibleGroups[i].v, 1)
       IN  IF next.threw THEN Throws ELSE ReduceModals(visibleGroups, i + 1, next.value)

\* lines 201-217 compute the same groups as getVisibleGroups
getVisibleModals(visible) == ReduceModals(VisibleGroupsFrom(visible, 1, EmptyObject), 1, EmptyObject)

\* what a call leaves in view: the request, and what came back
Raised(req) == [kind |-> "raised", req |-> req]
Visible(req, g, m) == [kind |-> "visible", req |-> req, groups |-> g, modals |-> m]
False(req) == [kind |-> "false", req |-> req]

getVisibleResult(req) ==
  LET visible == VisibleCommands(req, 1, EmptyObject)
      g == getVisibleGroups(visible)
      m == getVisibleModals(visible)
  IN  IF m.threw THEN Raised(req) ELSE Visible(req, g, m.value)

getVisible(req) ==
  /\ view' = getVisibleResult(req)
  /\ UNCHANGED <<aposModules, rawCommands, removes, commands, groups, modals, composed, outcome>>

\* lines 269-281: components is a constant of the options
getBrowserData(req) ==
  /\ view' = IF ~req.user THEN False(req) ELSE getVisibleResult(req)
  /\ UNCHANGED <<aposModules, rawCommands, removes, commands, groups, modals, composed, outcome>>

-----------------------------------------------------------------------------

Next ==
  \/ \E handler \in Handlers : composeCommands(handler)
  \/ \E req \in Requests : getVisible(req)
  \/ \E req \in Requests : getBrowserData(req)

Spec == Init /\ [][Next]_vars

(* One cycle over a module list fixed at startup: the collector and the    *)
(* pipeline as functions of self.apos.modules.                             *)
InitCompose ==
  /\ aposModules \in Modules
  /\ Constructed

NextCompose == composeCommands(Handler(aposModules))

SpecCompose == InitCompose /\ [][NextCompose]_vars

-----------------------------------------------------------------------------
(* Definitions the properties read. *)

\* the published triple
Registry == <<removes, commands, groups>>

EmptyRegistry == << << >>, EmptyObject, EmptyObject >>

CommandNames == {"a", "b", "undefined"}

\* the structural rules of a command; in the model an action and a
\* permission are always objects, and a payload always an object
SatisfiesRules(command) ==
  /\ command.type = "item"
  /\ TypeOf(command.label) = "string"
  /\ TypeOf(command.action.type) = "string"
  /\ "permission" \in DOMAIN command =>
       /\ TypeOf(command.permission.action) = "string"
       /\ TypeOf(command.permission.type) = "string"
  /\ "modal" \in DOMAIN command => TypeOf(command.modal) = "string"
  /\ TypeOf(command.shortcut) = "string"

\* a reader call came back with a view
Returned == view.kind = "visible"

\* name is a field of some group of the groups view
InGroupsView(name) ==
  \E i \in 1..Len(view.groups) : Has(view.groups[i].v.fields, name)

\* name is a field of some (modal, group) entry of the modals view
InModalsView(name) ==
  \E i \in 1..Len(view.modals) : \E j \in 1..Len(view.modals[i].v) :
    Has(view.modals[i].v[j].v.fields, name)

\* name is listed in the fields of some published group
Listed(name) == \E i \in 1..Len(groups) : Includes(groups[i].v.fields, name)

-----------------------------------------------------------------------------
(* C1: after any composition cycle, every command of the published command *)
(* table satisfies every structural rule of the validator, whatever its    *)
(* place in the table.                                                     *)
C1_PublishedCommandsValid ==
  \A i \in 1..Len(commands) : SatisfiesRules(commands[i].v)

(* C2: whenever a cycle fails, because a fragment-producing function       *)
(* throws or because validation raises, the published commands, removal    *)
(* list and group table are all empty once the cycle ends.                 *)
C2_FailedCycleLeavesEmpty ==
  outcome \in {"contribution_error", "validation_error"} => Registry = EmptyRegistry

(* C3, as claimed: over every step, the published triple is the composed   *)
(* and validated registry of the cycle when the step is a cycle that       *)
(* succeeds, and is left as it was (the last known-good registry) by any   *)
(* other step, a cycle that fails included.                                *)
C3_FailedCycleKeepsLastGood ==
  [][IF outcome' = "published"
       THEN Registry' = <<composed'.remove, composed'.command, composed'.group>>
       ELSE Registry' = Registry]_vars

(* C3, amended: wherever a reader can run, the published triple is either  *)
(* all empty or exactly the whole composed output of the most recent cycle *)
(* that got past collection, which then passed the validation gate; a      *)
(* cycle that fails in validation or in the pipeline leaves it empty.      *)
C3_EmptyOrWhollyComposed ==
  /\ \/ Registry = EmptyRegistry
     \/ /\ "group" \in DOMAIN composed
        /\ Registry = <<composed.remove, composed.command, composed.group>>
        /\ outcome \in {"published", "contribution_error"}
  /\ outcome \in {"validation_error", "compose_error"} => Registry = EmptyRegistry
  /\ outcome = "published" =>
       Registry = <<composed.remove, composed.command, composed.group>>

\* a cycle failed validation although it composed commands, removals and groups
C3_Witness ==
  /\ outcome = "validation_error"
  /\ composed.command # EmptyObject
  /\ composed.group # EmptyObject
  /\ Registry = EmptyRegistry

(* C4: no command name of the removal list is a field of any group of the  *)
(* groups view or of any (modal, group) entry of the modals view that      *)
(* getVisible returns; the command stays in the published command table.   *)
C4_RemovedNotInView ==
  Returned =>
    \A k \in 1..Len(removes) :
      ~InGroupsView(removes[k]) /\ ~InModalsView(removes[k])

\* a view came back that shows a command, while a published command that a
\* group lists is removed, and is still in the command table
C4_Witness ==
  /\ Returned
  /\ view.groups # EmptyObject
  /\ \E k \in 1..Len(removes) : Has(commands, removes[k]) /\ Listed(removes[k])

(* C5: for an authenticated request and a published command that is not in *)
(* the removal list and is listed in some group: the command is in the     *)
(* view getVisible returns if and only if it has no permission or the      *)
(* oracle grants (permission.action, permission.type, mode), mode being    *)
(* permission.mode when given and "draft" otherwise.                       *)
C5_Permitted(req, command) ==
  \/ "permission" \notin DOMAIN command
  \/ \E mode \in {"draft", "published"} :
       /\ mode = IF "mode" \in DOMAIN command.permission
                   THEN command.permission.mode ELSE "draft"
       /\ <<command.permission.action, command.permission.type, mode>> \in req.grants

C5_VisibleIffPermitted ==
  view.kind \in {"visible", "raised"} /\ view.req.user =>
    \A i \in 1..Len(commands) :
      ~Includes(removes, commands[i].k) /\ Listed(commands[i].k) =>
        ((Returned /\ InGroupsView(commands[i].k)) <=> C5_Permitted(view.req, commands[i].v))

(* C5 where getVisible returns: the same, over the views that came back.   *)
C5_VisibleIffPermittedWhereReturned ==
  Returned /\ view.req.user =>
    \A i \in 1..Len(commands) :
      ~Includes(removes, commands[i].k) /\ Listed(commands[i].k) =>
        (InGroupsView(commands[i].k) <=> C5_Permitted(view.req, commands[i].v))

(* C6, as claimed: every command under modals[modalKey][groupName].fields  *)
(* carries a modal attribute equal to modalKey, so that a command without  *)
(* a modal attribute is under no key of the modals view.                   *)
C6_ModalAttributeIsKey ==
  Returned =>
    \A i \in 1..Len(view.modals) : \A j \in 1..Len(view.modals[i].v) :
      \A n \in 1..Len(view.modals[i].v[j].v.fields) :
        LET field == view.modals[i].v[j].v.fields[n].v
        IN  "modal" \in DOMAIN field /\ field.modal = view.modals[i].k

\* the key of the modals view a command belongs under: its modal, or "null"
\* when it has none or an empty one
C6_KeyOf(field) ==
  IF "modal" \in DOMAIN field
    THEN IF field.modal = "" THEN "null" ELSE field.modal
    ELSE "null"

(* C6, amended: every command under modals[modalKey][groupName].fields     *)
(* either carries a modal attribute equal to modalKey, or carries none (or *)
(* an empty one) and modalKey is "null"; every command of the groups view  *)
(* is in the modals view, under that key and its group.                    *)
C6_ModalAttributeOrNullKey ==
  Returned =>
    /\ \A i \in 1..Len(view.modals) : \A j \in 1..Len(view.modals[i].v) :
         \A n \in 1..Len(view.modals[i].v[j].v.fields) :
           C6_KeyOf(view.modals[i].v[j].v.fields[n].v) = view.modals[i].k
    /\ \A i \in 1..Len(view.groups) : \A n \in 1..Len(view.groups[i].v.fields) :
         LET key == view.groups[i].k
             name == view.groups[i].v.fields[n].k
             modal == C6_KeyOf(view.groups[i].v.fields[n].v)
         IN  /\ Has(view.modals, modal)
             /\ Has(Get(view.modals, modal), key)
             /\ Has(Get(Get(view.modals, modal), key).fields, name)

\* a view with a command under the key of its modal and one under "null"
C6_Witness ==
  /\ Returned
  /\ Has(view.modals, "M")
  /\ Has(view.modals, "null")

-----------------------------------------------------------------------------
(* What the fragments of self.rawCommands declare. *)

\* the fragments that declare the group name, in collector order
DeclaringGroup(name) ==
  SelectSeq(rawCommands, LAMBDA f : "group" \in DOMAIN f /\ Has(f.group, name))

RECURSIVE ConcatFields(_, _)
ConcatFields(fragments, name) ==
  IF fragments = << >> THEN << >>
  ELSE Get(Head(fragments).group, name).fields \o ConcatFields(Tail(fragments), name)

GroupNames == {"g", "h"}

(* C7: over any fragment sequence, for each group name some fragment       *)
(* declares, the composed group's fields are the concatenation, in         *)
(* collector order, of the fields of every fragment that declares it, and  *)
(* its label is that of the last fragment that declares it.                *)
C7_GroupMerge ==
  outcome \notin {"init"} =>
    \A name \in GroupNames :
      LET declaring == DeclaringGroup(name)
      IN  declaring # << >> =>
            /\ "group" \in DOMAIN composed
            /\ Has(composed.group, name)
            /\ Get(composed.group, name).fields = ConcatFields(declaring, name)
            /\ Get(composed.group, name).label =
                 Get(declaring[Len(declaring)].group, name).label

(* C7 where composeGroup returns: the same, over the composed group tables. *)
C7_GroupMergeWhereReturned ==
  "group" \in DOMAIN composed =>
    \A name \in GroupNames :
      LET declaring == DeclaringGroup(name)
      IN  IF declaring = << >> THEN ~Has(composed.group, name)
          ELSE /\ Has(composed.group, name)
               /\ Get(composed.group, name).fields = ConcatFields(declaring, name)
               /\ Get(composed.group, name).label =
                    Get(declaring[Len(declaring)].group, name).label

\* the places of the chain entries of self.apos.modules: <<module, entry>>
Places ==
  UNION {{<<m, e>> : e \in 1..Len(aposModules[m])} : m \in 1..Len(aposModules)}

\* the entry at place p declares the command name
Adds(p, name) ==
  LET metadata == aposModules[p[1]][p[2]]
  IN  \/ /\ "value" \in DOMAIN metadata
         /\ "add" \in DOMAIN metadata.value
         /\ Has(metadata.value.add, name)
      \/ /\ "returns" \in DOMAIN metadata
         /\ "add" \in DOMAIN metadata.returns
         /\ Has(metadata.returns.add, name)

\* the command the entry at place p declares under name
Added(p, name) ==
  LET metadata == aposModules[p[1]][p[2]]
  IN  IF "value" \in DOMAIN metadata THEN Get(metadata.value.add, name)
      ELSE Get(metadata.returns.add, name)

\* collector order: module order, then chain order within a module
Before(p, q) == p[1] < q[1] \/ (p[1] = q[1] /\ p[2] < q[2])

(* C8: over any fragment sequence, for each command name, the composed     *)
(* command is exactly the command given by the last fragment, in collector *)
(* order (module order, then chain order within a module), whose add       *)
(* declares the name; a name no fragment declares is not composed.         *)
C8_AddMergeLastWins ==
  "command" \in DOMAIN composed =>
    \A name \in CommandNames :
      LET declaring == {p \in Places : Adds(p, name)}
      IN  IF declaring = {} THEN ~Has(composed.command, name)
          ELSE LET last == CHOOSE p \in declaring :
                             \A q \in declaring : q = p \/ Before(q, p)
               IN  /\ Has(composed.command, name)
                   /\ Get(composed.command, name) = Added(last, name)

\* two entries declare the same name with different commands, and the
\* composed command is the later one
C8_Witness ==
  /\ "command" \in DOMAIN composed
  /\ \E name \in CommandNames : \E p, q \in Places :
       /\ Adds(p, name) /\ Adds(q, name) /\ Before(p, q)
       /\ Added(p, name) # Added(q, name)
       /\ Get(composed.command, name) = Added(q, name)

(* C9: add, remove and group are each optional in a fragment: for any      *)
(* fragment sequence the pipeline completes without raising, and a part    *)
(* that is left out contributes nothing.                                   *)
C9_PipeNeverRaises ==
  /\ outcome # "compose_error"
  /\ outcome \in {"published", "validation_error"} =>
       /\ \A k \in 1..Len(composed.remove) :
            \E i \in 1..Len(rawCommands) :
              "remove" \in DOMAIN rawCommands[i] /\ Includes(rawCommands[i].remove, composed.remove[k])
       /\ \A k \in 1..Len(composed.command) :
            \E i \in 1..Len(rawCommands) :
              "add" \in DOMAIN rawCommands[i] /\ Has(rawCommands[i].add, composed.command[k].k)

(* C10: getVisible never raises, for any registry a cycle can publish and  *)
(* any request: a group field that names no visible command is left out of *)
(* that group's fields in both views.                                      *)
C10_GetVisibleNeverRaises ==
  /\ view.kind # "raised"
  /\ Returned =>
       \A name \in CommandNames :
         InGroupsView(name) \/ InModalsView(name) =>
           /\ Has(commands, name)
           /\ Kept(view.req, name, Get(commands, name))

====
